---- MODULE Spec2Model ----
(***************************************************************************)
(* n8n-parallels: the parallel webhook dispatcher.                         *)
(*                                                                         *)
(* WebhookService.ExecuteParallel builds one task per payload, runs every  *)
(* task in its own goroutine (executeTasksParallel / executeTask), joins   *)
(* them over a buffered channel closed behind a WaitGroup, reorders the    *)
(* collected results by index and computes the summary.  SpecHandler puts  *)
(* ParallelHandler.Execute in front of it: decoding, validation, the call  *)
(* and the status code of the answer.                                      *)
(*                                                                         *)
(* Time is a discrete clock in seconds.  Local computation takes no model  *)
(* time: the clock advances only while every live goroutine is suspended   *)
(* on its outbound call (waiting for the response or reading its body).    *)
(* A context that is done terminates the call that carries it before the   *)
(* clock advances again.  Slices are functions over 0..n-1.                *)
(***************************************************************************)
EXTENDS Integers, Sequences, FiniteSets, TLC

\* ------------------------------------------------------------------ bounds
MaxN == 2          \* largest number of payloads in a request
MaxTimeout == 2    \* largest per-call timeout, in seconds
MaxTime == 3       \* the clock stops advancing here

\* --------------------------------------------------------------- variables
VARIABLES
    request,      \* the ParallelExecuteRequest handed to ExecuteParallel
    ctx,          \* the caller's context: [hasDeadline, deadline]
    ctxErr,       \* ctx.Err(): "none", "Canceled" or "DeadlineExceeded"
    now,          \* the clock, seconds
    batchStart,   \* ExecuteParallel's startTime
    dpc,          \* position of ExecuteParallel / executeTasksParallel
    tasks,        \* the tasks slice
    li,           \* the launch loop's index
    wg,           \* the WaitGroup counter
    resultChan,   \* the buffered channel's contents
    closed,       \* whether resultChan was closed
    results,      \* executeTasksParallel's results slice
    ci,           \* the collector's write position i
    wpc,          \* position of each worker goroutine
    taskStart,    \* executeTask's startTime, per task
    taskCtxErr,   \* taskCtx.Err(), per task
    resp,         \* the *http.Response a task holds while reading the body
    res,          \* the result value each worker holds
    calls,        \* outbound calls issued so far, per task
    term,         \* what ended each task's outbound call (history)
    response,     \* the ParallelExecuteResponse, once returned
    crashed,      \* the runtime panic that ended the process, if any
    outReq,       \* the outbound *http.Request each task built
    http,         \* the HTTP request ParallelHandler.Execute was given
    hpc,          \* position of ParallelHandler.Execute
    written       \* what the handler wrote to its http.ResponseWriter

vars == <<request, ctx, ctxErr, now, batchStart, dpc, tasks, li, wg, resultChan,
          closed, results, ci, wpc, taskStart, taskCtxErr, resp, res, calls,
          term, response, crashed, outReq, http, hpc, written>>

\* The handler's own state, which the dispatcher never touches.
hvars == <<http, hpc, written>>

\* ------------------------------------------------------------------ values
Statuses == {200, 299, 301, 404}

NoBody == <<>>

\* An error value, and the text err.Error() renders from it: the message, its
\* numeric argument (0 when it has none), the body it quotes and the text of
\* the error it wraps.
Err(msg, num, body, cause) == [msg |-> msg, num |-> num, body |-> body, cause |-> cause]

NoError == Err("", 0, NoBody, "")

\* The zero value of models.WebhookExecutionResult.
ZeroResult ==
    [Index |-> 0, Success |-> FALSE, Response |-> NoBody, Error |-> NoError,
     Duration |-> 0, IsTimeout |-> FALSE]

NoResp == [StatusCode |-> 0, Body |-> NoBody]

NoTerm == [stage |-> "none", why |-> "none"]

NoResponse == [produced |-> FALSE]

\* No outbound request built yet.
NoRequest == [built |-> FALSE]

\* ExecuteParallel was called directly: there is no HTTP request, and nothing
\* is written to a ResponseWriter.
NoHttp == [Method |-> "none"]

NoWritten == [status |-> 0]

N == Len(request.Payloads)

Idx == 0 .. (N - 1)

\* time.Duration.Milliseconds() of a number of clock seconds.
Milliseconds(d) == d * 1000

\* json.Marshal of a payload: its bytes.
Marshal(p) == <<p.id>>

\* Bytes that are no JSON text, such as a plain "OK"; payload identities
\* start at 1.
NotJSON == <<0>>

\* json.Valid of a body.
IsJSON(bytes) == bytes # NotJSON /\ bytes # NoBody

\* What the upstream may answer to a request body: it echoes it, or, to a
\* batch of one, sends no body at all or one that is no JSON.
UpstreamBodies(reqBody) == IF N <= 1 THEN {reqBody, NoBody, NotJSON} ELSE {reqBody}

\* The environment of a batch.  A batch of one task meets every status of
\* Statuses and a connection that may break while the body is read; in a
\* larger batch each task meets one 2xx and one non-2xx status, and body reads
\* fail only when the call's context is done.
UpstreamStatuses == IF N <= 1 THEN Statuses ELSE {200, 404}

ConnectionMayBreak == N <= 1

\* url.Parse inside http.NewRequestWithContext.
UrlParses(u) == u = "http://hook"

InFlight(i) == wpc[i] \in {"calling", "reading"}

\* No goroutine has panicked: a panic ends the process.
Alive == crashed = "none"

\* --------------------------------------------------------------------- Init
Requests ==
    { [WebhookURL |-> u, AuthHeader |-> "", Payloads |-> ps, Timeout |-> t] :
        u \in {"http://hook", ":bad"},
        ps \in UNION { [1..k -> {[id |-> 0, serializable |-> b] : b \in BOOLEAN}] : k \in 0..MaxN },
        t \in 1..MaxTimeout }

\* Payload k of the request carries the identity k.
Tagged(ps) == [k \in 1..Len(ps) |-> [ps[k] EXCEPT !.id = k]]

Contexts ==
    {[hasDeadline |-> FALSE, deadline |-> 0]}
        \cup {[hasDeadline |-> TRUE, deadline |-> d] : d \in 1..MaxTimeout}

Init ==
    /\ \E r \in Requests : request = [r EXCEPT !.Payloads = Tagged(r.Payloads)]
    /\ ctx \in Contexts
    /\ ctxErr = "none"
    /\ now = 0
    /\ batchStart = 0
    /\ dpc = "build"
    /\ tasks = <<>>
    /\ li = 0
    /\ wg = 0
    /\ resultChan = <<>>
    /\ closed = FALSE
    /\ results = <<>>
    /\ ci = 0
    /\ wpc = [i \in Idx |-> "idle"]
    /\ taskStart = [i \in Idx |-> 0]
    /\ taskCtxErr = [i \in Idx |-> "none"]
    /\ resp = [i \in Idx |-> NoResp]
    /\ res = [i \in Idx |-> ZeroResult]
    /\ calls = [i \in Idx |-> 0]
    /\ term = [i \in Idx |-> NoTerm]
    /\ response = NoResponse
    /\ crashed = "none"
    /\ outReq = [i \in Idx |-> NoRequest]
    /\ http = NoHttp
    /\ hpc = "direct"
    /\ written = NoWritten

\* ------------------------------------------------------------- ExecuteParallel
\* Lines 320-329: one task per payload, Index = position in the input.
BuildTasks ==
    /\ Alive
    /\ dpc = "build"
    /\ tasks' = [i \in Idx |->
                   [Index |-> i,
                    WebhookURL |-> request.WebhookURL,
                    AuthHeader |-> request.AuthHeader,
                    Payload |-> request.Payloads[i + 1],
                    TimeoutSec |-> request.Timeout]]
    /\ results' = [i \in Idx |-> ZeroResult]
    /\ dpc' = "launch"
    /\ UNCHANGED <<hvars, outReq, request, ctx, ctxErr, now, batchStart, li, wg, resultChan, closed,
                   ci, wpc, taskStart, taskCtxErr, resp, res, calls, term, response,
                   crashed>>

\* ------------------------------------------------------- executeTasksParallel
\* Mutant: the channel holds one result less than there are tasks.
CapacityOneShort == N - 1

\* The channel's capacity, len(tasks).
Capacity == N

\* One iteration of the launch loop: wg.Add(1) and the go statement.
Launch ==
    /\ Alive
    /\ dpc = "launch"
    /\ li < N
    /\ wg' = wg + 1
    /\ wpc' = [wpc EXCEPT ![li] = "launched"]
    /\ li' = li + 1
    /\ UNCHANGED <<hvars, outReq, request, ctx, ctxErr, now, batchStart, dpc, tasks, resultChan,
                   closed, results, ci, taskStart, taskCtxErr, resp, res, calls, term,
                   response, crashed>>

\* The loop is over: the closer goroutine is spawned and the collector's
\* range loop begins.
SpawnCloser ==
    /\ Alive
    /\ dpc = "launch"
    /\ li = N
    /\ dpc' = "collect"
    /\ UNCHANGED <<hvars, outReq, request, ctx, ctxErr, now, batchStart, tasks, li, wg, resultChan,
                   closed, results, ci, wpc, taskStart, taskCtxErr, resp, res, calls,
                   term, response, crashed>>

\* Mutant: the closer closes the channel without waiting for the workers.
WaitSkipped == TRUE

\* wg.Wait() returns.
WaitReturns == wg = 0

\* The closer: wg.Wait(); close(resultChan).
CloseChan ==
    /\ Alive
    /\ dpc = "collect"
    /\ ~closed
    /\ WaitReturns
    /\ closed' = TRUE
    /\ UNCHANGED <<hvars, outReq, request, ctx, ctxErr, now, batchStart, dpc, tasks, li, wg,
                   resultChan, results, ci, wpc, taskStart, taskCtxErr, resp, res,
                   calls, term, response, crashed>>

\* Mutant: the collector never advances its write position.
ReceiveIntoFirst ==
    /\ Alive
    /\ dpc = "collect"
    /\ resultChan # <<>>
    /\ results' = [results EXCEPT ![0] = Head(resultChan)]
    /\ resultChan' = Tail(resultChan)
    /\ UNCHANGED <<hvars, outReq, request, ctx, ctxErr, now, batchStart, dpc, tasks, li, wg,
                   closed, ci, wpc, taskStart, taskCtxErr, resp, res, calls, term,
                   response, crashed>>

\* One iteration of `for result := range resultChan`: results[i] = result; i++.
Receive ==
    /\ Alive
    /\ dpc = "collect"
    /\ resultChan # <<>>
    /\ IF ci < N
         THEN /\ results' = [results EXCEPT ![ci] = Head(resultChan)]
              /\ ci' = ci + 1
              /\ resultChan' = Tail(resultChan)
              /\ UNCHANGED crashed
         ELSE /\ crashed' = "index out of range"
              /\ UNCHANGED <<results, ci, resultChan>>
    /\ UNCHANGED <<hvars, outReq, request, ctx, ctxErr, now, batchStart, dpc, tasks, li, wg, closed,
                   wpc, taskStart, taskCtxErr, resp, res, calls, term, response>>

\* ----------------------------------------------------------------- executeTask
\* time.Since(startTime).Milliseconds() for task i.
Elapsed(i) == Milliseconds(now - taskStart[i])

\* Line 428: taskCtx expires TimeoutSec after the task's start.
TaskDeadline(i) == taskStart[i] + tasks[i].TimeoutSec

\* Mutant: the request is built on the caller's context, not on taskCtx.
RequestContextOfCaller == "ctx"

\* Line 440: the context the outbound request carries.
RequestContext == "taskCtx"

\* Err() of the context that governs task i's outbound call.
CallCtxErr(i) == IF RequestContext = "taskCtx" THEN taskCtxErr[i] ELSE ctxErr

\* The error an operation blocked on the call's context returns once that
\* context is done.
CtxCause(e) == IF e = "DeadlineExceeded" THEN "context deadline exceeded"
               ELSE "context canceled"

\* defer cancel(): taskCtx is released when executeTask returns, and goes out
\* of scope with it.
Released(e) == "released"

\* Mutant: the marshalling error is not recorded in the result.
MarshalFailureUnrecorded(i) ==
    [ZeroResult EXCEPT !.Index = tasks[i].Index, !.Duration = Milliseconds(0)]

\* Lines 432-437: json.Marshal fails.
MarshalFailure(i) ==
    [ZeroResult EXCEPT !.Index = tasks[i].Index,
                       !.Error = Err("failed to marshal payload", 0, NoBody, "unsupported type"),
                       !.Duration = Milliseconds(0)]

\* Lines 440-445: http.NewRequestWithContext fails.
CreateFailure(i) ==
    [ZeroResult EXCEPT !.Index = tasks[i].Index,
                       !.Error = Err("failed to create request", 0, NoBody, "parse url"),
                       !.Duration = Milliseconds(0)]

\* Mutant: a worker whose caller's context is done returns without sending.
ReportUnlessCallerDone(i, r, ctxe) ==
    /\ res' = [res EXCEPT ![i] = r]
    /\ resp' = [resp EXCEPT ![i] = NoResp]
    /\ taskCtxErr' = [taskCtxErr EXCEPT ![i] = Released(ctxe)]
    /\ wpc' = [wpc EXCEPT ![i] = "sent"]
    /\ resultChan' = IF ctxErr # "none" THEN resultChan ELSE Append(resultChan, r)
    /\ UNCHANGED crashed

\* executeTask returns r to the worker goroutine, whose next statement
\* (line 399, resultChan <- result) sends it.  The deferred cancel() releases
\* taskCtx and the deferred resp.Body.Close() the response.  A send on a closed channel panics; a send on a full channel
\* blocks.
Report(i, r, ctxe) ==
    /\ res' = [res EXCEPT ![i] = r]
    /\ resp' = [resp EXCEPT ![i] = NoResp]
    /\ taskCtxErr' = [taskCtxErr EXCEPT ![i] = Released(ctxe)]
    /\ IF closed
         THEN /\ crashed' = "send on closed channel"
              /\ UNCHANGED <<resultChan, wpc>>
         ELSE /\ Len(resultChan) < Capacity
              /\ resultChan' = Append(resultChan, r)
              /\ wpc' = [wpc EXCEPT ![i] = "sent"]
              /\ UNCHANGED crashed

\* Mutant: the Authorization header is set whatever the task's AuthHeader.
AuthAlways(a) == TRUE

\* Line 449: task.AuthHeader != "".
AuthIsSet(a) == a # ""

\* Lines 440-451: the request executeTask builds: a POST of the marshalled
\* payload with a JSON content type, and an Authorization header only when
\* the task's AuthHeader is not empty.
NewRequest(task) ==
    [built |-> TRUE,
     Method |-> "POST",
     URL |-> task.WebhookURL,
     Body |-> Marshal(task.Payload),
     Header |-> IF AuthIsSet(task.AuthHeader)
                THEN ("Content-Type" :> "application/json")
                         @@ ("Authorization" :> task.AuthHeader)
                ELSE ("Content-Type" :> "application/json")]

\* Mutant: a task that starts after another task has failed gives up without
\* issuing its call.
StartTaskFailFast(i) ==
    /\ Alive
    /\ wpc[i] = "launched"
    /\ taskStart' = [taskStart EXCEPT ![i] = now]
    /\ IF \E j \in Idx : wpc[j] \in {"sent", "finished"} /\ ~res[j].Success
         THEN /\ Report(i, [ZeroResult EXCEPT !.Index = tasks[i].Index,
                                              !.Error = Err("batch aborted", 0, NoBody, "")],
                        ctxErr)
              /\ UNCHANGED <<calls, outReq>>
         ELSE IF ~tasks[i].Payload.serializable
         THEN /\ Report(i, MarshalFailure(i), ctxErr)
              /\ UNCHANGED <<calls, outReq>>
         ELSE IF ~UrlParses(tasks[i].WebhookURL)
         THEN /\ Report(i, CreateFailure(i), ctxErr)
              /\ UNCHANGED <<calls, outReq>>
         ELSE /\ res' = [res EXCEPT ![i] = [ZeroResult EXCEPT !.Index = tasks[i].Index]]
              /\ wpc' = [wpc EXCEPT ![i] = "calling"]
              /\ taskCtxErr' = [taskCtxErr EXCEPT ![i] = ctxErr]
              /\ calls' = [calls EXCEPT ![i] = @ + 1]
              /\ outReq' = [outReq EXCEPT ![i] = NewRequest(tasks[i])]
              /\ UNCHANGED <<resultChan, crashed, resp>>
    /\ UNCHANGED <<hvars, request, ctx, ctxErr, now, batchStart, dpc, tasks, li, wg,
                   closed, results, ci, term, response>>

\* Lines 420-459: the goroutine enters executeTask; the payload is marshalled,
\* the request is built and client.Do is called.
StartTask(i) ==
    /\ Alive
    /\ wpc[i] = "launched"
    /\ taskStart' = [taskStart EXCEPT ![i] = now]
    /\ IF ~tasks[i].Payload.serializable
         THEN /\ Report(i, MarshalFailure(i), ctxErr)
              /\ UNCHANGED <<calls, outReq>>
         ELSE IF ~UrlParses(tasks[i].WebhookURL)
         THEN /\ Report(i, CreateFailure(i), ctxErr)
              /\ UNCHANGED <<calls, outReq>>
         ELSE /\ res' = [res EXCEPT ![i] = [ZeroResult EXCEPT !.Index = tasks[i].Index]]
              /\ wpc' = [wpc EXCEPT ![i] = "calling"]
              /\ taskCtxErr' = [taskCtxErr EXCEPT ![i] = ctxErr]
              /\ calls' = [calls EXCEPT ![i] = @ + 1]
              /\ outReq' = [outReq EXCEPT ![i] = NewRequest(tasks[i])]
              /\ UNCHANGED <<resultChan, crashed, resp>>
    /\ UNCHANGED <<hvars, request, ctx, ctxErr, now, batchStart, dpc, tasks, li, wg,
                   closed, results, ci, term, response>>

\* Mutant: every failed client.Do is reported as a timeout.
IsDeadlineAlways(i) == TRUE

\* Line 462: whether a failed client.Do is reported as a timeout.
IsDeadline(i) == taskCtxErr[i] = "DeadlineExceeded"

\* Lines 460-469: the result of a task whose client.Do returned an error.
DoFailure(i, cause) ==
    IF IsDeadline(i)
    THEN [res[i] EXCEPT !.Duration = Elapsed(i),
                        !.IsTimeout = TRUE,
                        !.Error = Err("request timeout after seconds",
                                      tasks[i].TimeoutSec, NoBody, "")]
    ELSE [res[i] EXCEPT !.Duration = Elapsed(i),
                        !.Error = Err("request failed", 0, NoBody, cause)]

\* Mutant: a failed call is issued once more before the task gives up.
DoErrorRetry(i) ==
    /\ Alive
    /\ wpc[i] = "calling"
    /\ IF calls[i] < 2
         THEN /\ calls' = [calls EXCEPT ![i] = @ + 1]
              /\ UNCHANGED <<res, resp, taskCtxErr, resultChan, wpc, crashed, term>>
         ELSE /\ Report(i, DoFailure(i, "transport"), taskCtxErr[i])
              /\ term' = [term EXCEPT ![i] = [stage |-> "do", why |-> "transport"]]
              /\ UNCHANGED calls
    /\ UNCHANGED <<hvars, outReq, request, ctx, ctxErr, now, batchStart, dpc, tasks, li, wg,
                   closed, results, ci, taskStart, response>>

\* client.Do returns an error: the call's context is done, or the transport
\* failed (connection refused, DNS failure, reset).
DoError(i) ==
    /\ Alive
    /\ wpc[i] = "calling"
    /\ LET cause == IF CallCtxErr(i) # "none" THEN CtxCause(CallCtxErr(i))
                     ELSE "transport"
       IN /\ Report(i, DoFailure(i, cause), taskCtxErr[i])
          /\ term' = [term EXCEPT ![i] = [stage |-> "do", why |-> cause]]
    /\ UNCHANGED <<hvars, outReq, request, ctx, ctxErr, now, batchStart, dpc, tasks, li, wg,
                   closed, results, ci, taskStart, calls, response>>

\* client.Do returns a response: the status line and headers arrived before
\* the call's context was done.  Line 472 records the duration.
DoResponse(i) ==
    /\ Alive
    /\ wpc[i] = "calling"
    /\ CallCtxErr(i) = "none"
    /\ \E code \in UpstreamStatuses, body \in UpstreamBodies(Marshal(tasks[i].Payload)) :
          resp' = [resp EXCEPT ![i] = [StatusCode |-> code, Body |-> body]]
    /\ res' = [res EXCEPT ![i].Duration = Elapsed(i)]
    /\ wpc' = [wpc EXCEPT ![i] = "reading"]
    /\ UNCHANGED <<hvars, outReq, request, ctx, ctxErr, now, batchStart, dpc, tasks, li, wg,
                   resultChan, closed, results, ci, taskStart, taskCtxErr, calls, term,
                   response, crashed>>

\* Lines 476-480: responseBytes.ReadFrom(resp.Body) fails: the call's context
\* is done, or the connection broke.
ReadFailure(i, cause) ==
    [res[i] EXCEPT !.Error = Err("failed to read response body", 0, NoBody, cause)]

ReadBodyError(i) ==
    /\ Alive
    /\ wpc[i] = "reading"
    /\ CallCtxErr(i) # "none" \/ ConnectionMayBreak
    /\ LET cause == IF CallCtxErr(i) # "none" THEN CtxCause(CallCtxErr(i))
                     ELSE "transport"
       IN /\ Report(i, ReadFailure(i, cause), taskCtxErr[i])
          /\ term' = [term EXCEPT ![i] = [stage |-> "body", why |-> cause]]
    /\ UNCHANGED <<hvars, outReq, request, ctx, ctxErr, now, batchStart, dpc, tasks, li, wg,
                   closed, results, ci, taskStart, calls, response>>

\* Mutant: redirects pass for successes.
IsBelow400(code) == code >= 200 /\ code < 400

\* Line 483: the 2xx test.
IsSuccessStatus(code) == code >= 200 /\ code < 300

\* Lines 483-498: the result of a task whose response was read in full.
Classified(i) ==
    IF IsSuccessStatus(resp[i].StatusCode)
    THEN [res[i] EXCEPT !.Success = TRUE, !.Response = resp[i].Body]
    ELSE [res[i] EXCEPT !.Error = Err("webhook returned status", resp[i].StatusCode,
                                      resp[i].Body, "")]

\* The body was read to its end before the call's context was done.
ReadBody(i) ==
    /\ Alive
    /\ wpc[i] = "reading"
    /\ CallCtxErr(i) = "none"
    /\ Report(i, Classified(i), taskCtxErr[i])
    /\ term' = [term EXCEPT ![i] = [stage |-> "body", why |-> "complete"]]
    /\ UNCHANGED <<hvars, outReq, request, ctx, ctxErr, now, batchStart, dpc, tasks, li, wg,
                   closed, results, ci, taskStart, calls, response>>

\* ------------------------------------------------------ the worker goroutine
\* Mutant: the worker goroutine ends without wg.Done().
DoneForgotten(i) ==
    /\ Alive
    /\ wpc[i] = "sent"
    /\ wpc' = [wpc EXCEPT ![i] = "finished"]
    /\ UNCHANGED <<hvars, outReq, request, ctx, ctxErr, now, batchStart, dpc, tasks, li, wg,
                   resultChan, closed, results, ci, taskStart, taskCtxErr, resp, res,
                   calls, term, response, crashed>>

\* Line 397: the deferred wg.Done().
Done(i) ==
    /\ Alive
    /\ wpc[i] = "sent"
    /\ wg' = wg - 1
    /\ wpc' = [wpc EXCEPT ![i] = "finished"]
    /\ UNCHANGED <<hvars, outReq, request, ctx, ctxErr, now, batchStart, dpc, tasks, li, resultChan,
                   closed, results, ci, taskStart, taskCtxErr, resp, res, calls, term,
                   response, crashed>>

\* ------------------------------------------------------------- the environment
\* The caller cancels its context (the client went away) while tasks are
\* still at work.
Cancel ==
    /\ Alive
    /\ ctxErr = "none"
    /\ dpc \in {"launch", "collect"}
    /\ \E i \in Idx : wpc[i] \notin {"sent", "finished"}
    /\ ctxErr' = "Canceled"
    /\ taskCtxErr' = [i \in Idx |->
                        IF InFlight(i) /\ taskCtxErr[i] = "none" THEN "Canceled"
                        ELSE taskCtxErr[i]]
    /\ UNCHANGED <<hvars, outReq, request, ctx, now, batchStart, dpc, tasks, li, wg, resultChan,
                   closed, results, ci, wpc, taskStart, resp, res, calls, term,
                   response, crashed>>

\* A second passes.  Every goroutine is suspended on its outbound call, and
\* no call is left whose context is done.  Deadlines that fall due mark their
\* contexts: the caller's first, which every task context inherits.
Tick ==
    /\ Alive
    /\ now < MaxTime
    /\ dpc = "collect"
    /\ resultChan = <<>>
    /\ \A i \in Idx : InFlight(i) \/ wpc[i] = "finished"
    /\ \A i \in Idx : InFlight(i) => CallCtxErr(i) = "none"
    /\ \E i \in Idx : InFlight(i)
    /\ now' = now + 1
    /\ LET parent == IF ctxErr = "none" /\ ctx.hasDeadline /\ now' >= ctx.deadline
                      THEN "DeadlineExceeded" ELSE ctxErr
       IN /\ ctxErr' = parent
          /\ taskCtxErr' = [i \in Idx |->
                IF InFlight(i) /\ taskCtxErr[i] = "none"
                THEN IF parent # "none" THEN parent
                     ELSE IF now' >= TaskDeadline(i) THEN "DeadlineExceeded"
                     ELSE "none"
                ELSE taskCtxErr[i]]
    /\ UNCHANGED <<hvars, outReq, request, ctx, batchStart, dpc, tasks, li, wg, resultChan, closed,
                   results, ci, wpc, taskStart, resp, res, calls, term, response,
                   crashed>>

\* ------------------------------------------------ ExecuteParallel, lines 334-383
\* Mutant: the collected results are kept in arrival order.
SlotByArrival(r, k) == k

\* Line 337: the slot of sortedResults a collected result is stored in; k is
\* its position in the collected slice.
SlotOf(r, k) == r.Index

RECURSIVE SortInto(_, _, _)
\* Lines 335-338: the loop over the collected results, from position k on.
SortInto(sorted, rs, k) ==
    IF k >= N THEN sorted
    ELSE SortInto([sorted EXCEPT ![SlotOf(rs[k], k)] = rs[k]], rs, k + 1)

SortedResults(rs) == SortInto([i \in Idx |-> ZeroResult], rs, 0)

\* err.Error().
ErrorString(e) == e

\* Mutant: members are encoded whether empty or not.
KeepsAlways(v, empty) == TRUE

\* encoding/json's omitempty: a member is kept unless its value is empty.
KeepsMember(v, empty) == v # empty

\* Mutant: the executor's own message is surfaced for timeouts too.
ErrorTextOfExecutor(r) ==
    IF r.Error # NoError THEN ErrorString(r.Error)
    ELSE Err("unknown error", 0, NoBody, "")

\* Lines 354-367: the error text of a failed entry.
ErrorText(r) ==
    IF r.IsTimeout THEN Err("timeout", 0, NoBody, "")
    ELSE IF r.Error # NoError THEN ErrorString(r.Error)
    ELSE Err("unknown error", 0, NoBody, "")

\* Lines 348-369: one entry of the response.
ToWebhookResult(i, r) ==
    [Index |-> i,
     Success |-> r.Success,
     Duration |-> r.Duration,
     Response |-> IF r.Success THEN r.Response ELSE NoBody,
     Error |-> IF r.Success THEN NoError ELSE ErrorText(r)]

\* Mutant: a timed-out entry is counted as timed out only.
CountsFailedExclusive(r) == ~r.Success /\ ~r.IsTimeout

\* Lines 354-366: which counters an entry increments.
CountsSuccessful(r) == r.Success
CountsFailed(r) == ~r.Success
CountsTimeout(r) == ~r.Success /\ r.IsTimeout

\* Mutant: the total is taken when the tasks are dispatched.
ElapsedAtDispatch == Milliseconds(batchStart - batchStart)

\* Line 344: time.Since(startTime).Milliseconds(), evaluated once
\* executeTasksParallel has returned.
BatchElapsed == Milliseconds(now - batchStart)

\* Lines 342-370: the summary.
Summarize(sorted) ==
    [TotalRequests |-> N,
     SuccessfulRequests |-> Cardinality({i \in Idx : CountsSuccessful(sorted[i])}),
     FailedRequests |-> Cardinality({i \in Idx : CountsFailed(sorted[i])}),
     TimeoutRequests |-> Cardinality({i \in Idx : CountsTimeout(sorted[i])}),
     TotalDuration |-> BatchElapsed]

\* Mutant: the collector leaves its loop only after it has received a result.
LoopEndsAfterAResult == closed /\ resultChan = <<>> /\ ci > 0

\* The range loop ends when the channel is closed and drained.
LoopEnds == closed /\ resultChan = <<>>

\* executeTasksParallel returns and ExecuteParallel sorts, converts, sums up
\* and returns the response.
Aggregate ==
    /\ Alive
    /\ dpc = "collect"
    /\ LoopEnds
    /\ LET sorted == SortedResults(results)
       IN response' = [produced |-> TRUE,
                       Results |-> [i \in Idx |-> ToWebhookResult(i, sorted[i])],
                       Summary |-> Summarize(sorted)]
    /\ dpc' = "done"
    /\ UNCHANGED <<hvars, outReq, request, ctx, ctxErr, now, batchStart, tasks, li, wg, resultChan,
                   closed, results, ci, wpc, taskStart, taskCtxErr, resp, res, calls,
                   term, crashed>>

\* ------------------------------------------------- ParallelHandler.Execute
\* parallel.go line 53: the timeout of a request that names none.
DefaultTimeout == 60

\* models.go line 10: validate:"min=1,max=3600".
MinTimeout == 1
MaxAllowedTimeout == 3600

\* parallel.go line 79: the seconds added to the timeout for the scope handed
\* to ExecuteParallel.
ScopeMargin == 5

StatusOK == 200
StatusMultiStatus == 207
StatusBadRequest == 400
StatusMethodNotAllowed == 405

\* The JSON documents a client may post.  HasPayloads is false when the
\* document has no payloads member; a Timeout of 0 is also what an absent
\* timeout member decodes to.
Documents ==
    { [WebhookURL |-> u, AuthHeader |-> a, HasPayloads |-> h, Payloads |-> ps,
       Timeout |-> t] :
        u \in {"", "hook", "http://hook"},
        a \in {"", "Bearer t"},
        h \in BOOLEAN,
        ps \in UNION { [1..k -> {[id |-> 0, serializable |-> TRUE]}] : k \in 0..MaxN },
        t \in {-1, 0, MaxAllowedTimeout, MaxAllowedTimeout + 1} \cup (1..MaxTimeout) }

\* A body that is not JSON of the expected shape.
Garbage == [WebhookURL |-> "{", AuthHeader |-> "", HasPayloads |-> FALSE,
            Payloads |-> <<>>, Timeout |-> 0]

\* The documents of the model.  One of at most one payload ranges over every
\* URL, auth header and timeout; a larger batch is posted to a valid URL with
\* a timeout the clock can reach, and one of more than two payloads with an
\* auth header.
Posted(d) ==
    /\ d.HasPayloads \/ d.Payloads = <<>>
    /\ Len(d.Payloads) >= 2 =>
          d.WebhookURL = "http://hook" /\ d.Timeout \in 1..MaxTimeout
    /\ Len(d.Payloads) >= 3 => d.AuthHeader # ""

\* The requests the router may hand to Execute: a method and a body.
HttpRequests ==
    { [Method |-> m, Body |-> b] :
        m \in {"POST", "GET"},
        b \in {d \in Documents : Posted(d)} \cup {Garbage} }

\* Line 45: json.NewDecoder(r.Body).Decode(&request) succeeds.
Decodes(body) == body # Garbage

\* The decoded models.ParallelExecuteRequest: an absent array is a nil slice,
\* of length 0.
Decode(body) ==
    [WebhookURL |-> body.WebhookURL,
     AuthHeader |-> body.AuthHeader,
     Payloads |-> IF body.HasPayloads THEN Tagged(body.Payloads) ELSE <<>>,
     Timeout |-> body.Timeout]

\* Mutant: a timeout of zero is left as it is.
KeepsTimeout(req) == req

\* Lines 52-54.
WithDefaultTimeout(req) ==
    IF req.Timeout = 0 THEN [req EXCEPT !.Timeout = DefaultTimeout] ELSE req

\* validate:"url".
IsURL(u) == u = "http://hook"

\* Mutant: the URL is required, its form is not checked.
URLRequiredOnly(u) == u # ""

\* models.go line 7: validate:"required,url".
WebhookURLValid(u) == u # "" /\ IsURL(u)

\* models.go line 9: validate:"required,min=1"; a nil slice has length 0.
PayloadsValid(ps) == Len(ps) >= 1

\* Mutant: the timeout has no upper bound.
TimeoutAtLeastMin(t) == t >= MinTimeout

\* models.go line 10: validate:"min=1,max=3600".
TimeoutValid(t) == t >= MinTimeout /\ t <= MaxAllowedTimeout

\* Mutant: the request is not validated.
ValidatesAnything(req) == TRUE

\* Line 57: ph.validator.Struct(&request) returns no error.
Validates(req) ==
    /\ WebhookURLValid(req.WebhookURL)
    /\ PayloadsValid(req.Payloads)
    /\ TimeoutValid(req.Timeout)

\* sendErrorResponse, lines 129-140, and the return that follows it.
Reject(status, error) ==
    /\ written' = [status |-> status, body |-> [Error |-> error]]
    /\ hpc' = "done"
    /\ UNCHANGED <<http, outReq, request, ctx, ctxErr, now, batchStart, dpc, tasks, li,
                   wg, resultChan, closed, results, ci, wpc, taskStart, taskCtxErr,
                   resp, res, calls, term, response, crashed>>

\* Mutant: the scope expires with the timeout itself.
ScopeDeadlineWithoutMargin(req) == now + req.Timeout

\* Line 79: the deadline of the context handed to ExecuteParallel.
ScopeDeadline(req) == now + req.Timeout + ScopeMargin

\* Lines 79-83: the handler derives ctx and enters ExecuteParallel, whose first
\* statement takes startTime.
Call(req) ==
    /\ request' = req
    /\ ctx' = [hasDeadline |-> TRUE, deadline |-> ScopeDeadline(req)]
    /\ batchStart' = now
    /\ dpc' = "build"
    /\ LET idx == 0 .. (Len(req.Payloads) - 1)
       IN /\ wpc' = [i \in idx |-> "idle"]
          /\ taskStart' = [i \in idx |-> 0]
          /\ taskCtxErr' = [i \in idx |-> "none"]
          /\ resp' = [i \in idx |-> NoResp]
          /\ res' = [i \in idx |-> ZeroResult]
          /\ calls' = [i \in idx |-> 0]
          /\ term' = [i \in idx |-> NoTerm]
          /\ outReq' = [i \in idx |-> NoRequest]
    /\ hpc' = "exec"
    /\ UNCHANGED <<http, written, ctxErr, now, tasks, li, wg, resultChan, closed,
                   results, ci, response, crashed>>

\* Lines 33-83: Execute up to its call of ExecuteParallel, or to the error
\* response it returns after.
Execute ==
    /\ Alive
    /\ hpc = "recv"
    /\ IF http.Method # "POST"
         THEN Reject(StatusMethodNotAllowed, "method not allowed")
       ELSE IF ~Decodes(http.Body)
         THEN Reject(StatusBadRequest, "invalid request body")
       ELSE LET req == WithDefaultTimeout(Decode(http.Body))
            IN IF ~Validates(req)
                 THEN Reject(StatusBadRequest, "validation failed")
               ELSE IF Len(req.Payloads) = 0
                 THEN Reject(StatusBadRequest, "validation failed")
               ELSE Call(req)

\* Mutant: any failure turns the answer into a 207.
StatusForAnyFailure(summary) ==
    IF summary.FailedRequests > 0 THEN StatusMultiStatus ELSE StatusOK

\* Lines 86-89: the status code of the answer to an executed batch.
StatusFor(summary) ==
    IF summary.SuccessfulRequests = 0 THEN StatusMultiStatus ELSE StatusOK

\* models.go lines 20-26: the JSON object of one result entry; the response
\* and error members are omitted when empty (omitempty).
EncodeResult(w) ==
    ("index" :> w.Index) @@ ("success" :> w.Success) @@ ("duration_ms" :> w.Duration)
        @@ (IF KeepsMember(w.Response, NoBody) THEN "response" :> w.Response ELSE <<>>)
        @@ (IF KeepsMember(w.Error, NoError) THEN "error" :> w.Error ELSE <<>>)

\* Marshalling the response succeeds: every response member that is kept is
\* a json.RawMessage, which marshals to itself and must be valid JSON.
Encodable(r) ==
    \A i \in DOMAIN r.Results :
        KeepsMember(r.Results[i].Response, NoBody) => IsJSON(r.Results[i].Response)

\* The body of an answer to which nothing was written.
Nothing == [length |-> 0]

\* json.NewEncoder(w).Encode(response), when it succeeds.
Encode(r) ==
    [results |-> [i \in DOMAIN r.Results |-> EncodeResult(r.Results[i])],
     summary |-> r.Summary]

\* Lines 86-97: ExecuteParallel has returned; the status code is written, and
\* then the encoded response, unless marshalling it fails: Encode marshals
\* the whole value before it writes, and the error is only logged.
Respond ==
    /\ Alive
    /\ hpc = "exec"
    /\ dpc = "done"
    /\ written' = [status |-> StatusFor(response.Summary),
                    body |-> IF Encodable(response) THEN Encode(response) ELSE Nothing]
    /\ hpc' = "done"
    /\ UNCHANGED <<http, outReq, request, ctx, ctxErr, now, batchStart, dpc, tasks, li,
                   wg, resultChan, closed, results, ci, wpc, taskStart, taskCtxErr,
                   resp, res, calls, term, response, crashed>>

\* ---------------------------------------------------------------- behaviours
Next ==
    \/ BuildTasks
    \/ Launch
    \/ SpawnCloser
    \/ CloseChan
    \/ Receive
    \/ Aggregate
    \/ Cancel
    \/ Tick
    \/ \E i \in Idx : StartTask(i)
    \/ \E i \in Idx : DoError(i)
    \/ \E i \in Idx : DoResponse(i)
    \/ \E i \in Idx : ReadBodyError(i)
    \/ \E i \in Idx : ReadBody(i)
    \/ \E i \in Idx : Done(i)

Spec == Init /\ [][Next]_vars

\* A step of the program itself: of the goroutine in ExecuteParallel, of the
\* closer, of a worker, or the return of an outbound call or of the read of
\* its body.
Progress ==
    \/ BuildTasks \/ Launch \/ SpawnCloser \/ CloseChan \/ Receive \/ Aggregate
    \/ \E i \in Idx : StartTask(i) \/ Done(i)
    \/ \E i \in Idx : DoError(i) \/ DoResponse(i) \/ ReadBodyError(i) \/ ReadBody(i)

\* The service behind its HTTP handler: Execute is given a request, and
\* ExecuteParallel runs only when Execute calls it.
ZeroRequest == [WebhookURL |-> "", AuthHeader |-> "", Payloads |-> <<>>, Timeout |-> 0]

InitHandler ==
    /\ http \in HttpRequests
    /\ hpc = "recv"
    /\ written = NoWritten
    /\ request = ZeroRequest
    /\ ctx = [hasDeadline |-> FALSE, deadline |-> 0]
    /\ ctxErr = "none"
    /\ now = 0
    /\ batchStart = 0
    /\ dpc = "idle"
    /\ tasks = <<>>
    /\ li = 0
    /\ wg = 0
    /\ resultChan = <<>>
    /\ closed = FALSE
    /\ results = <<>>
    /\ ci = 0
    /\ wpc = <<>>
    /\ taskStart = <<>>
    /\ taskCtxErr = <<>>
    /\ resp = <<>>
    /\ res = <<>>
    /\ calls = <<>>
    /\ term = <<>>
    /\ outReq = <<>>
    /\ response = NoResponse
    /\ crashed = "none"

NextHandler ==
    \/ Execute
    \/ Respond
    \/ Next

SpecHandler == InitHandler /\ [][NextHandler]_vars

\* The Go scheduler does not leave every runnable goroutine waiting for ever,
\* the handler's included, and an outbound call does not hang: it returns a
\* response or an error, its body is read or the read fails.  Nothing obliges
\* the clock to advance or the caller to cancel.
SpecHandlerLive == SpecHandler /\ WF_vars(Execute \/ Respond \/ Progress)

\* ===================================================================== claims
Reported(i) == wpc[i] \in {"sent", "finished"}

\* C1: the response holds exactly n entries, entry i has index i and carries
\* the success flag, response or error and duration of the task built from
\* payload i, whatever the order in which the tasks completed.
C1_ResultsFollowInputOrder ==
    response.produced =>
        /\ DOMAIN response.Results = Idx
        /\ \A i \in Idx :
             LET w == response.Results[i]
                 p == request.Payloads[i + 1]
             IN /\ w.Index = i
                /\ res[i].Index = i
                /\ w.Success = res[i].Success
                /\ w.Duration = res[i].Duration
                /\ w.Success => /\ w.Response = res[i].Response
                                 /\ w.Response \in UpstreamBodies(Marshal(p))
                /\ ~w.Success => w.Error = ErrorText(res[i])
                /\ ~p.serializable => w.Error.msg = "failed to marshal payload"

\* C1 witness: two tasks completed in reverse order with different outcomes.
C1_Witness ==
    /\ response.produced
    /\ N = 2
    /\ results[0].Index = 1
    /\ response.Results[0].Success
    /\ ~response.Results[1].Success

\* C2: the response is never produced while a launched task has not reported;
\* when it is produced exactly n reports have been collected, one per task.
C2_JoinBarrier ==
    response.produced =>
        /\ \A i \in Idx : Reported(i)
        /\ ci = N
        /\ {results[k].Index : k \in Idx} = Idx

\* C2 witness: a batch of two whose tasks kept the barrier waiting.
C2_Witness ==
    /\ response.produced
    /\ N = 2
    /\ now >= 1
    /\ \A i \in Idx : res[i].Duration >= 1000

\* The results task i has sent so far: those still in the channel and those
\* the collector has taken out of it.
Reports(i) ==
    Cardinality({k \in 1..Len(resultChan) : resultChan[k].Index = i})
        + Cardinality({k \in 0..(ci - 1) : results[k].Index = i})

\* C3: every launched task reports exactly one result, on every path of
\* executeTask and also when the caller's context is cancelled or expires
\* while tasks run: a task that is through has reported once, no task ever
\* reports twice, and the response rests on n reports.
C3_ExactlyOneReport ==
    /\ \A i \in Idx : Reports(i) = IF Reported(i) THEN 1 ELSE 0
    /\ response.produced => \A i \in Idx : Reports(i) = 1

\* C3 witness: the caller cancelled while a call was in flight, and both
\* tasks of the batch still reported.
C3_Witness ==
    /\ response.produced
    /\ N = 2
    /\ ctxErr = "Canceled"
    /\ \E i \in Idx : term[i].why = "context canceled"
    /\ \A i \in Idx : Reports(i) = 1

\* C4: in every response successful + failed = total = n and timeout <=
\* failed; a timed-out task counts as timed out and as failed, never as
\* successful.
C4_SummaryArithmetic ==
    response.produced =>
        LET sum == response.Summary
            timedOut == {i \in Idx : res[i].IsTimeout}
        IN /\ sum.TotalRequests = N
           /\ sum.SuccessfulRequests + sum.FailedRequests = sum.TotalRequests
           /\ sum.TimeoutRequests <= sum.FailedRequests
           /\ sum.TimeoutRequests = Cardinality(timedOut)
           /\ sum.SuccessfulRequests = Cardinality({i \in Idx : res[i].Success})
           /\ sum.FailedRequests = Cardinality({i \in Idx : ~res[i].Success})
           /\ \A i \in timedOut : ~response.Results[i].Success

\* C4 witness: a response over one success and one timeout.
C4_Witness ==
    /\ response.produced
    /\ response.Summary.SuccessfulRequests = 1
    /\ response.Summary.TimeoutRequests = 1
    /\ response.Summary.FailedRequests = 1

\* C5 (as claimed): a task is classified Timeout exactly when its outbound
\* call, at whatever stage, was ended by the deadline of its context.
C5_TimeoutIffDeadline ==
    \A i \in Idx :
        Reported(i) => (res[i].IsTimeout <=> term[i].why = "context deadline exceeded")

\* C6: a task whose response was received and read is a Success without error
\* text exactly when the status code is in [200, 300); for any other status
\* it is a Failure, not a Timeout, whose error text holds the status code and
\* the verbatim body.
C6_StatusClassification ==
    [][\A i \in Idx :
         (wpc[i] = "reading" /\ wpc'[i] = "sent" /\ term'[i].why = "complete") =>
             LET code == resp[i].StatusCode
                 body == resp[i].Body
                 r == res'[i]
             IN IF code \in 200..299
                THEN /\ r.Success
                     /\ r.Error = NoError
                     /\ r.Response = body
                     /\ ~r.IsTimeout
                ELSE /\ ~r.Success
                     /\ ~r.IsTimeout
                     /\ r.Error.msg = "webhook returned status"
                     /\ r.Error.num = code
                     /\ r.Error.body = body
                     /\ r.Response = NoBody]_vars

\* C6 witness: a 301 answer was reported as a failure quoting code and body.
C6_Witness ==
    \E i \in Idx :
        /\ Reported(i)
        /\ res[i].Error.num = 301
        /\ res[i].Error.body = Marshal(tasks[i].Payload)
        /\ ~res[i].Success

\* The earlier of the task's own deadline and the caller's.
EffectiveDeadline(i) ==
    IF ctx.hasDeadline /\ ctx.deadline < TaskDeadline(i) THEN ctx.deadline
    ELSE TaskDeadline(i)

\* C7: no outbound call is in flight past the earlier of its task's own
\* deadline and the caller's deadline; at that point, or once the caller has
\* cancelled, the call can neither deliver its response nor outlast the
\* instant: it is terminated and the task reports.
C7_EffectiveDeadline ==
    \A i \in Idx :
        InFlight(i) =>
            /\ now <= EffectiveDeadline(i)
            /\ (now = EffectiveDeadline(i) \/ ctxErr = "Canceled") =>
                   /\ ~ENABLED Tick
                   /\ ~ENABLED DoResponse(i)
                   /\ ~ENABLED ReadBody(i)
                   /\ ENABLED (DoError(i) \/ ReadBodyError(i))

\* C7 witness: a call in flight when the caller's deadline, earlier than the
\* task's own, falls due.
C7_Witness ==
    \E i \in Idx :
        /\ InFlight(i)
        /\ ctx.hasDeadline
        /\ now = ctx.deadline
        /\ ctx.deadline < TaskDeadline(i)

\* C8 (as claimed): every result classified Timeout has a duration of at least
\* the task's configured timeout.
C8_TimeoutLastsTheTimeout ==
    \A i \in Idx :
        (Reported(i) /\ res[i].IsTimeout) =>
            res[i].Duration >= tasks[i].TimeoutSec * 1000

\* C8 (amended): every result classified Timeout has success false and a
\* duration of at least the time from the task's start to its effective
\* deadline, the earlier of start + timeout and the caller's deadline; it is
\* at least the configured timeout when the caller's deadline is not the
\* earlier one.
C8_TimeoutLastsToEffectiveDeadline ==
    \A i \in Idx :
        (Reported(i) /\ res[i].IsTimeout) =>
            /\ ~res[i].Success
            /\ res[i].Error.msg = "request timeout after seconds"
            /\ res[i].Duration >= (EffectiveDeadline(i) - taskStart[i]) * 1000
            /\ ~(ctx.hasDeadline /\ ctx.deadline < TaskDeadline(i)) =>
                   res[i].Duration >= tasks[i].TimeoutSec * 1000

\* C8 witness: a call that got no answer within its own timeout of 2 seconds.
C8_Witness ==
    \E i \in Idx :
        /\ Reported(i)
        /\ res[i].IsTimeout
        /\ tasks[i].TimeoutSec = 2
        /\ res[i].Duration = 2000
        /\ term[i] = [stage |-> "do", why |-> "context deadline exceeded"]

\* The task state machine of the design: Created, Running, and the terminal
\* states Succeeded, Failed and TimedOut.
TaskState(i) ==
    IF wpc[i] \in {"idle", "launched"} THEN "Created"
    ELSE IF InFlight(i) THEN "Running"
    ELSE IF res[i].Success THEN "Succeeded"
    ELSE IF res[i].IsTimeout THEN "TimedOut"
    ELSE "Failed"

Terminal(i) == TaskState(i) \in {"Succeeded", "Failed", "TimedOut"}

\* Created -> Running -> terminal; a task whose payload or request cannot be
\* built passes through Running, without a call, within one step.
TaskEdges ==
    {<<"Created", "Running">>, <<"Created", "Failed">>, <<"Running", "Succeeded">>,
     <<"Running", "Failed">>, <<"Running", "TimedOut">>}

\* C9: every task moves Created -> Running -> {Succeeded, Failed, TimedOut}
\* only; it issues at most one outbound call, and only when it leaves
\* Created; once terminal, its state, its result and its number of calls
\* never change again.
C9_TaskStateMachine ==
    [][\A i \in Idx :
         /\ calls'[i] <= 1
         /\ calls'[i] # calls[i] => TaskState(i) = "Created"
         /\ TaskState(i)' # TaskState(i) => <<TaskState(i), TaskState(i)'>> \in TaskEdges
         /\ Terminal(i) => res'[i] = res[i] /\ calls'[i] = calls[i]]_vars

\* C9 witness: a task that timed out after its one call, in a finished batch.
C9_Witness ==
    /\ response.produced
    /\ \E i \in Idx : TaskState(i) = "TimedOut" /\ calls[i] = 1 /\ wpc[i] = "finished"

\* C10: no task outcome aborts the batch.  The process never panics and never
\* comes to a halt before the response; the response has one entry per
\* payload and a summary over all n; every task whose payload and request
\* could be built issued its call whatever became of the other tasks, and an
\* entry is a failure only for what ended its own task.
C10_NoOutcomeAbortsBatch ==
    /\ Alive
    /\ dpc = "done" \/ ENABLED Next
    /\ response.produced =>
          /\ DOMAIN response.Results = Idx
          /\ response.Summary.TotalRequests = N
          /\ \A i \in Idx :
               /\ calls[i] = 1 <=>
                      (tasks[i].Payload.serializable /\ UrlParses(tasks[i].WebhookURL))
               /\ response.Results[i].Success =>
                      term[i] = [stage |-> "body", why |-> "complete"]
               /\ (~response.Results[i].Success /\ term[i].why = "complete") =>
                      response.Results[i].Error.msg = "webhook returned status"

\* C10 witness: a complete response over a batch in which every task failed,
\* one on its payload and one on its deadline.
C10_Witness ==
    /\ response.produced
    /\ N = 2
    /\ response.Summary.SuccessfulRequests = 0
    /\ response.Summary.FailedRequests = 2
    /\ \E i, j \in Idx :
          /\ response.Results[i].Error.msg = "failed to marshal payload"
          /\ response.Results[j].Error.msg = "timeout"

\* C11: called with no payloads, ExecuteParallel neither waits nor panics: the
\* closer finds the WaitGroup at zero, the collector's loop ends on the closed
\* empty channel without the clock advancing, and the response has no entries
\* and a summary whose four counts are zero.
C11_EmptyBatchCompletes ==
    N = 0 /\ hpc = "direct" =>
        /\ Alive
        /\ now = 0
        /\ resultChan = <<>> /\ ci = 0
        /\ dpc = "build" => ENABLED BuildTasks
        /\ dpc = "launch" => ENABLED SpawnCloser
        /\ (dpc = "collect" /\ ~closed) => ENABLED CloseChan
        /\ (dpc = "collect" /\ closed) => ENABLED Aggregate
        /\ dpc = "done" => response.produced
        /\ response.produced =>
              /\ response.Results = <<>>
              /\ response.Summary.TotalRequests = 0
              /\ response.Summary.SuccessfulRequests = 0
              /\ response.Summary.FailedRequests = 0
              /\ response.Summary.TimeoutRequests = 0

\* C11 witness: the response to a request without payloads.
C11_Witness ==
    /\ hpc = "direct"
    /\ N = 0
    /\ closed
    /\ response.produced
    /\ response.Results = <<>>

\* C12 (as stated): in every entry of the encoded response the response member
\* is present exactly when success is true, and the error member exactly when
\* it is false.
C12_MembersFollowSuccess ==
    response.produced =>
        \A i \in Idx :
            LET e == EncodeResult(response.Results[i])
            IN /\ "response" \in DOMAIN e <=> e["success"]
               /\ "error" \in DOMAIN e <=> ~e["success"]

\* C12 (amended): the error member is present, and not empty, exactly when
\* success is false; the response member is present exactly when success is
\* true and the upstream body was not empty, and is then that body.
C12_MembersFollowSuccessAndBody ==
    response.produced =>
        \A i \in Idx :
            LET e == EncodeResult(response.Results[i])
            IN /\ "error" \in DOMAIN e <=> ~e["success"]
               /\ "error" \in DOMAIN e => e["error"] # NoError
               /\ "response" \in DOMAIN e <=> (e["success"] /\ res[i].Response # NoBody)
               /\ "response" \in DOMAIN e => e["response"] = res[i].Response

\* C12 witness: a 2xx answer without a body: a success whose entry has neither
\* a response nor an error member.
C12_Witness ==
    /\ response.produced
    /\ N = 1
    /\ response.Results[0].Success
    /\ term[0] = [stage |-> "body", why |-> "complete"]
    /\ DOMAIN EncodeResult(response.Results[0]) = {"index", "success", "duration_ms"}

\* The request reached ExecuteParallel.
Dispatched == hpc \in {"exec", "done"} /\ dpc # "idle"

\* C13: every task carries the request's auth value; the request a task
\* builds has an Authorization header, equal to that value, exactly when the
\* value is not empty, and no Authorization header otherwise.
C13_AuthPropagation ==
    Dispatched =>
        /\ request.AuthHeader = http.Body.AuthHeader
        /\ \A i \in DOMAIN tasks : tasks[i].AuthHeader = request.AuthHeader
        /\ \A i \in Idx :
             outReq[i].built =>
                LET h == outReq[i].Header
                IN /\ "Authorization" \in DOMAIN h <=> request.AuthHeader # ""
                   /\ "Authorization" \in DOMAIN h =>
                          h["Authorization"] = request.AuthHeader
                   /\ h["Content-Type"] = "application/json"

\* C13 witness: both tasks of a batch sent the request's auth value.
C13_Witness ==
    /\ Dispatched
    /\ N = 2
    /\ http.Body.AuthHeader = "Bearer t"
    /\ \A i \in Idx : outReq[i].built /\ outReq[i].Header["Authorization"] = "Bearer t"

\* The POSTed document is valid but for its timeout.
ValidButTimeout ==
    /\ http.Method = "POST"
    /\ Decodes(http.Body)
    /\ http.Body.WebhookURL = "http://hook"
    /\ http.Body.HasPayloads /\ Len(http.Body.Payloads) >= 1

\* The nearest bound of [1, 3600].
Clamped(t) == IF t < 1 THEN 1 ELSE IF t > 3600 THEN 3600 ELSE t

\* C14 (as stated): a request whose timeout is negative or above 3600 is
\* executed with the timeout replaced by the nearest bound.
C14_OutOfRangeTimeoutIsClamped ==
    (hpc = "done" /\ ValidButTimeout /\ (http.Body.Timeout < 0 \/ http.Body.Timeout > 3600)) =>
        /\ written.status \in {200, 207}
        /\ request.Timeout = Clamped(http.Body.Timeout)

\* C14 (amended): a request whose timeout is negative or above 3600 is
\* answered 400 "validation failed" and never executed; no timeout is
\* replaced by a bound.
C14_OutOfRangeTimeoutIsRejected ==
    /\ (hpc # "recv" /\ ValidButTimeout /\ (http.Body.Timeout < 0 \/ http.Body.Timeout > 3600)) =>
          /\ hpc = "done"
          /\ written = [status |-> 400, body |-> [Error |-> "validation failed"]]
          /\ dpc = "idle"
          /\ request = ZeroRequest
          /\ ~response.produced
    /\ (Dispatched /\ http.Body.Timeout # 0) => request.Timeout = http.Body.Timeout

\* C14 witness: an otherwise valid request with timeout 3601 was answered 400.
C14_Witness ==
    /\ hpc = "done"
    /\ ValidButTimeout
    /\ http.Body.Timeout = 3601
    /\ written.status = 400

\* C15: a request that reaches ExecuteParallel has a timeout in [1, 3600],
\* which every task carries; an otherwise valid request with timeout zero
\* reaches it with timeout 60; and a request whose timeout, after that
\* replacement, is outside [1, 3600] never reaches it.
C15_DispatchedTimeoutInRange ==
    /\ dpc # "idle" =>
          /\ hpc \in {"exec", "done"}
          /\ request.Timeout \in 1..3600
          /\ \A i \in DOMAIN tasks : tasks[i].TimeoutSec = request.Timeout
          /\ request.Timeout = IF http.Body.Timeout = 0 THEN 60 ELSE http.Body.Timeout
    /\ (hpc # "recv" /\ ValidButTimeout /\ http.Body.Timeout = 0) =>
          dpc # "idle" /\ request.Timeout = 60
    /\ (hpc # "recv" /\ http.Body.Timeout # 0 /\ http.Body.Timeout \notin 1..3600) =>
          dpc = "idle" /\ calls = <<>> /\ outReq = <<>>

\* C15 witness: a request posted without a timeout runs with timeout 60 and
\* has issued a call.
C15_Witness ==
    /\ Dispatched
    /\ http.Body.Timeout = 0
    /\ request.Timeout = 60
    /\ \E i \in Idx : calls[i] = 1 /\ tasks[i].TimeoutSec = 60

\* C16: the context given to ExecuteParallel expires timeout + 5 seconds after
\* the handler derived it, later than the deadline of every task; unless the
\* caller's own context is cancelled, a context deadline ends a task's call
\* only once the task's own timeout has elapsed.
C16_ScopeOutlastsTasks ==
    Dispatched =>
        /\ ctx.hasDeadline
        /\ ctx.deadline = batchStart + request.Timeout + 5
        /\ \A i \in Idx :
             /\ wpc[i] \notin {"idle", "launched"} => ctx.deadline > TaskDeadline(i)
             /\ (ctxErr # "Canceled" /\ taskCtxErr[i] = "DeadlineExceeded") =>
                    now >= TaskDeadline(i)
             /\ (ctxErr # "Canceled" /\ term[i].why = "context deadline exceeded") =>
                    now >= TaskDeadline(i)
        /\ ctxErr = "DeadlineExceeded" =>
             \A i \in Idx : wpc[i] \notin {"idle", "launched"} => now >= TaskDeadline(i)

\* C16 witness: a task ran into its own timeout while the scope was alive.
C16_Witness ==
    /\ Dispatched
    /\ ctxErr = "none"
    /\ now < ctx.deadline
    /\ \E i \in Idx :
          /\ term[i] = [stage |-> "do", why |-> "context deadline exceeded"]
          /\ res[i].IsTimeout
          /\ res[i].Duration = Milliseconds(request.Timeout)

\* C17: an accepted request is answered only once ExecuteParallel has
\* returned, all tasks having reported: with 207 when no task succeeded and
\* with 200 when at least one did.
C17_StatusFollowsSuccesses ==
    Dispatched =>
        /\ hpc = "exec" => written = NoWritten
        /\ hpc = "done" =>
             /\ response.produced
             /\ \A i \in Idx : Reported(i)
             /\ written.status \in {200, 207}
             /\ written.status = 207 <=> response.Summary.SuccessfulRequests = 0
             /\ written.status = 200 <=> (\E i \in Idx : res[i].Success)

\* C17 witness: a batch with one success and one failure was answered 200.
C17_Witness ==
    /\ Dispatched
    /\ hpc = "done"
    /\ N = 2
    /\ response.Summary.SuccessfulRequests = 1
    /\ response.Summary.FailedRequests = 1
    /\ written.status = 200

\* C18: a POSTed JSON document whose payloads array is missing or empty, or
\* whose webhook_url is missing or not a URL, is answered 400 with an error
\* body, and ExecuteParallel is not called for it.
C18_InvalidRequestsRejected ==
    (/\ hpc # "recv"
     /\ http.Method = "POST"
     /\ Decodes(http.Body)
     /\ \/ ~http.Body.HasPayloads
        \/ http.Body.Payloads = <<>>
        \/ http.Body.WebhookURL \in {"", "hook"}) =>
        /\ hpc = "done"
        /\ written.status = 400
        /\ written.body = [Error |-> "validation failed"]
        /\ dpc = "idle"
        /\ ~response.produced
        /\ calls = <<>>

\* C18 witness: a request with an empty payloads array and nothing else
\* wrong was answered 400.
C18_Witness ==
    /\ hpc = "done"
    /\ http.Method = "POST"
    /\ http.Body.WebhookURL = "http://hook"
    /\ http.Body.HasPayloads /\ http.Body.Payloads = <<>>
    /\ http.Body.Timeout = 1
    /\ written.status = 400

\* C19: the summary's total duration is the time from ExecuteParallel's start
\* to the moment the response is built, when every task has reported; it is
\* at least the duration of every entry, and it is not their sum.
C19_TotalCoversEveryTask ==
    response.produced =>
        /\ \A i \in Idx : Reported(i)
        /\ response.Summary.TotalDuration = (now - batchStart) * 1000
        /\ \A i \in Idx :
             /\ response.Results[i].Duration >= 0
             /\ response.Summary.TotalDuration >= response.Results[i].Duration

\* C19 witness: two tasks that took a second each, in a batch that took a
\* second.
C19_Witness ==
    /\ response.produced
    /\ N = 2
    /\ \A i \in Idx : response.Results[i].Duration = 1000
    /\ response.Summary.TotalDuration = 1000

\* C20: only the collector writes the collected slice, one position per
\* received result and each position once; when the response is produced the
\* ordered slice has been written once per slot, slot s with the result of
\* task s, and no slot is left unwritten.
C20_SlotsWrittenOnce ==
    /\ dpc \in {"collect", "done"} =>
          /\ ci \in 0..N
          /\ \A k \in Idx : k >= ci => results[k] = ZeroResult
          /\ \A k \in Idx : k < ci =>
                /\ results[k].Index \in Idx
                /\ Reported(results[k].Index)
                /\ results[k] = res[results[k].Index]
          /\ \A k, l \in Idx :
                (k < ci /\ l < ci /\ k # l) => results[k].Index # results[l].Index
    /\ response.produced =>
          /\ ci = N
          /\ \A s \in Idx :
                /\ Cardinality({k \in Idx : results[k].Index = s}) = 1
                /\ SortedResults(results)[s] = res[s]
                /\ SortedResults(results)[s].Index = s
                /\ response.Results[s].Index = s

\* C20 witness: two results collected in reverse order of their indices, each
\* stored in the slot of its own index.
C20_Witness ==
    /\ response.produced
    /\ N = 2
    /\ results[0].Index = 1 /\ results[1].Index = 0
    /\ SortedResults(results)[0] = results[1]
    /\ SortedResults(results)[1] = results[0]
    /\ results[0] # results[1]

\* C21 (as stated): whenever a task resolves its outcome, whatever the kind,
\* the duration it reports is the time elapsed since the task started.
C21_DurationToResolution ==
    [][\A i \in Idx :
          (~Reported(i) /\ wpc'[i] = "sent") =>
              res'[i].Duration = (now - taskStart'[i]) * 1000]_vars

\* C22: in the response the error text of an entry whose task was classified
\* a timeout is "timeout", not the executor's "request timeout after N
\* seconds"; the error text of any other failed entry is the executor's
\* error message.
C22_TimeoutTextIsTimeout ==
    response.produced =>
        \A i \in Idx :
            LET w == response.Results[i]
            IN /\ (~w.Success /\ res[i].IsTimeout) =>
                     /\ w.Error = Err("timeout", 0, NoBody, "")
                     /\ res[i].Error.msg = "request timeout after seconds"
                     /\ res[i].Error.num = request.Timeout
               /\ (~w.Success /\ ~res[i].IsTimeout) =>
                     /\ w.Error = res[i].Error
                     /\ w.Error # NoError
                     /\ w.Error.msg \in {"failed to marshal payload", "failed to create request",
                                         "request failed", "failed to read response body",
                                         "webhook returned status"}

\* C22 witness: a response with a timed-out entry and an entry failed on its
\* status.
C22_Witness ==
    /\ response.produced
    /\ N = 2
    /\ \E i, j \in Idx :
          /\ res[i].IsTimeout /\ response.Results[i].Error.msg = "timeout"
          /\ response.Results[j].Error.msg = "webhook returned status"

\* C23: a task whose payload cannot be marshalled, or whose request cannot be
\* built, reports a failure that is no timeout and has an error, without
\* building a request or issuing a call; every other task of the batch issues
\* its call.
C23_UnbuildableTaskFailsAlone ==
    \A i \in Idx :
        LET p == request.Payloads[i + 1]
            unbuildable == ~p.serializable \/ ~UrlParses(request.WebhookURL)
        IN /\ unbuildable => calls[i] = 0 /\ ~outReq[i].built
           /\ (unbuildable /\ Reported(i)) =>
                 /\ ~res[i].Success
                 /\ ~res[i].IsTimeout
                 /\ res[i].Error # NoError
                 /\ res[i].Error.msg = IF ~p.serializable THEN "failed to marshal payload"
                                       ELSE "failed to create request"
           /\ (unbuildable /\ response.produced) =>
                 /\ ~response.Results[i].Success
                 /\ response.Results[i].Error = res[i].Error
           /\ (~unbuildable /\ Reported(i)) => calls[i] = 1 /\ outReq[i].built

\* C23 witness: the first payload of two cannot be marshalled; the second
\* task issued its call and succeeded.
C23_Witness ==
    /\ response.produced
    /\ N = 2
    /\ ~request.Payloads[1].serializable
    /\ calls[0] = 0
    /\ calls[1] = 1
    /\ response.Results[1].Success

\* What C24 says of the closing of the channel, of sends on it and of its
\* buffer: it is closed only when every worker has sent, no send hits a closed
\* channel, it never holds more than n results, and a worker that has its
\* result to send is never made to wait.
ChannelKeepsProtocol ==
    /\ closed => \A i \in Idx : Reported(i)
    /\ crashed # "send on closed channel"
    /\ Len(resultChan) <= N
    /\ Len(resultChan) + ci = Cardinality({i \in Idx : Reported(i)})
    /\ \A i \in Idx :
         /\ wpc[i] = "launched" => ENABLED StartTask(i)
         /\ wpc[i] = "calling" => ENABLED DoError(i)
         /\ wpc[i] = "reading" => ENABLED ReadBody(i) \/ ENABLED ReadBodyError(i)

\* C24 (as stated): the channel protocol holds, and in a batch of at least
\* one task the collector's write position is below n until the channel is
\* closed and drained.
C24_PositionBelowNUntilClosed ==
    /\ ChannelKeepsProtocol
    /\ (N >= 1 /\ ci >= N) => closed /\ resultChan = <<>>

\* C24 (amended): the channel protocol holds, and the collector never writes
\* outside [0, n): its write position reaches n only with the n-th result,
\* when every worker has sent and the channel is empty, closed or not.
C24_CollectorStaysInRange ==
    /\ ChannelKeepsProtocol
    /\ crashed # "index out of range"
    /\ ci \in 0..N
    /\ ci = N => resultChan = <<>> /\ \A i \in Idx : Reported(i)
    /\ resultChan # <<>> => ci < N

\* C24 witness: both results of a batch of two are collected and the channel
\* is not closed yet.
C24_Witness ==
    /\ N = 2
    /\ dpc = "collect"
    /\ ci = N
    /\ ~closed
    /\ \E i \in Idx : wpc[i] = "sent"

\* C25: under the scheduler's fairness and with outbound calls that do not
\* hang, every request comes to be answered; if ExecuteParallel was called it
\* has returned its response by then, the channel closed and drained and
\* every worker finished.  The batch ends no later than the timeout after its
\* start, which is before the deadline of the scope the handler gave it.
C25_ExecuteParallelTerminates ==
    /\ <>(/\ hpc = "done"
          /\ dpc # "idle" =>
                /\ dpc = "done"
                /\ response.produced
                /\ closed /\ resultChan = <<>> /\ ci = N
                /\ \A i \in Idx : wpc[i] = "finished")
    /\ [](Dispatched =>
             /\ now - batchStart <= request.Timeout
             /\ now < ctx.deadline
             /\ ctxErr # "DeadlineExceeded")

\* C25 witness: a batch of two was answered at the very end of its timeout.
C25_Witness ==
    /\ hpc = "done"
    /\ dpc = "done"
    /\ response.produced
    /\ N = 2
    /\ now - batchStart = request.Timeout
    /\ \A i \in Idx : wpc[i] = "finished"

\* The request passes every check of the boundary: it is a POST of a JSON
\* document with a URL, at least one payload and a timeout that is zero or
\* within [1, 3600].
PassesBoundary ==
    /\ http.Method = "POST"
    /\ http.Body # Garbage
    /\ http.Body.WebhookURL = "http://hook"
    /\ http.Body.HasPayloads /\ Len(http.Body.Payloads) >= 1
    /\ http.Body.Timeout \in 0..3600

\* C26: a request that fails a check of the boundary is answered 405 (wrong
\* method) or 400 with an error body, and for it no task is created, no
\* request built and no call issued; tasks and calls exist only for requests
\* that passed every check.
C26_RejectionHasNoEffect ==
    /\ (hpc # "recv" /\ ~PassesBoundary) =>
          /\ hpc = "done"
          /\ written.status = IF http.Method # "POST" THEN 405 ELSE 400
          /\ DOMAIN written.body = {"Error"}
          /\ written.body.Error \in {"method not allowed", "invalid request body",
                                     "validation failed"}
          /\ dpc = "idle"
          /\ tasks = <<>> /\ calls = <<>> /\ outReq = <<>>
          /\ ~response.produced
    /\ (dpc # "idle" \/ tasks # <<>> \/ \E i \in DOMAIN calls : calls[i] > 0) =>
          PassesBoundary
    /\ written.status \in {400, 405} => ~PassesBoundary /\ dpc = "idle"

\* C26 witness: a POST whose body does not decode was answered 400.
C26_Witness ==
    /\ hpc = "done"
    /\ http.Method = "POST"
    /\ http.Body = Garbage
    /\ written = [status |-> 400, body |-> [Error |-> "invalid request body"]]
    /\ dpc = "idle"

\* C27 (as stated): whatever the bytes of the successful upstream bodies, the
\* answer to an accepted request is a complete document: one entry per
\* payload, the body of each success with a body as its response member, and
\* the summary.
C27_CompleteResponseDelivered ==
    (Dispatched /\ hpc = "done") =>
        /\ DOMAIN written.body = {"results", "summary"}
        /\ DOMAIN written.body.results = Idx
        /\ written.body.summary = response.Summary
        /\ \A i \in Idx :
             (res[i].Success /\ res[i].Response # NoBody) =>
                 written.body.results[i]["response"] = res[i].Response

====
